---- MODULE Spec2Model ----
(***************************************************************************)
(* NotebookSketchApp (src/unnamed/part_001): the React component's state,  *)
(* its event handlers, the FileReader callback and the continuation of     *)
(* handleGenerate after the awaited generateContent call.                  *)
(*                                                                         *)
(* Strings the code searches with String.includes are sequences of text    *)
(* fragments; every substring the code searches for is a fragment of its   *)
(* own, so Includes is substring search at fragment granularity.  The      *)
(* nullable string fields (selectedImage, generatedImage, error) are only  *)
(* ever tested for truthiness, under which null and "" agree: both are the *)
(* empty sequence.                                                         *)
(*                                                                         *)
(* Every handler runs to completion inside one browser task and React      *)
(* re-renders before the next discrete event, so a handler is one action   *)
(* and reads the state of the latest render.                               *)
(***************************************************************************)
EXTENDS Naturals, Sequences, FiniteSets

VARIABLES
    selectedImage,   \* useState<string | null>, part_001:9
    generatedImage,  \* part_001:10
    isGenerating,    \* part_001:11
    error,           \* part_001:12
    customText,      \* part_001:13
    paperType,       \* part_001:14
    lastPrompt,      \* part_001:15
    apiKey,          \* part_001:18
    storage,         \* localStorage entry "gemini_api_key"
    envKey,          \* process.env.API_KEY inlined by the build
    reads,           \* FileReaders whose onloadend has not fired yet
    calls,           \* generateContent calls that have not settled yet
    ev               \* the handler that ran last, with its input

vars == <<selectedImage, generatedImage, isGenerating, error, customText,
          paperType, lastPrompt, apiKey, storage, envKey, reads, calls, ev>>

----------------------------------------------------------------------------
\* Bounds of the model.
MaxReads == 1
MaxCalls == 2
MaxParts == 2

----------------------------------------------------------------------------
\* Strings.

NULL == <<>>

Truthy(s) == s # <<>>

Includes(s, frag) == \E i \in 1..Len(s) : s[i] = frag

MissingKeyMsg == <<"Please enter your Gemini ", "API Key", " first.">>

AuthFailedMsg == <<"Authentication", " failed. Please check your ", "API key", ".">>

TextInsteadMsg ==
    <<"The AI returned ", "text instead of an image",
      ". It might have misunderstood the prompt or triggered a ",
      "safety filter", ".">>

NoImageMsg == <<"No image was generated", ". Please try again with a different photo.">>

GenericMsg ==
    <<"Generation failed. This is often because your ", "API key",
      " is not linked to a billing account (required for image generation). Please check Option 1 below or use Option 2.">>

PaperTypes == {"lined", "graph", "plain"}

\* The paper buttons the user presses in the model.
PaperChoices == {"lined", "graph"}

DefaultText == "FESTIVAL, LOVE, FUN"

Texts == {DefaultText, "WOW"}

Keys == {"", "k1"}

EnvKeys == {"", "envkey"}

\* The template literal of the instruction.
Prompt(paper, text) ==
    <<"Convert this photo into a creative, hand-drawn colored pencil sketch on ",
      paper, " notebook paper. Style details: - The background MUST look like a real sheet of ",
      paper, " paper. ... include these specific words: \"", text, "\". ...">>

\* A data URL, as FileReader.readAsDataURL and the template literal build it.
DataURL(mime, data) == <<"data:", mime, ";base64,", data>>

\* selectedImage.split(',')[1]
Base64Of(url) == url[4]

\* selectedImage.split(';')[0].split(':')[1]
MimeOf(url) == url[2]

Files == { [mime |-> "image/png", data |-> "a"], [mime |-> "image/jpeg", data |-> "b"] }

\* reader.result when onloadend fires: the data URL, or null when the read failed.
ReadResults(f) == { DataURL(f.mime, f.data), NULL }

----------------------------------------------------------------------------
\* What the generateContent call can settle with: a response, of which the
\* code reads candidates[0].content.parts and the text getter, or a rejection
\* with an Error object, of which the catch block reads toString() and message.
\* The statements between setIsGenerating(true) and the await (building the
\* client, splitting the data URL) do not throw on a non-empty key and a string.

TextPart    == [hasInline |-> FALSE, mimeType |-> "", data |-> ""]
EmptyInline == [hasInline |-> TRUE, mimeType |-> "image/png", data |-> ""]
JpegPart    == [hasInline |-> TRUE, mimeType |-> "image/jpeg", data |-> "d1"]
NoMimePart  == [hasInline |-> TRUE, mimeType |-> "", data |-> "d2"]

PartKinds == {TextPart, JpegPart}

\* Every list of up to MaxParts text and image parts, and lists with an empty
\* inline part or a second image part, which tell the first image from the rest.
PartLists ==
    UNION { [1..n -> PartKinds] : n \in 0..MaxParts }
    \cup { <<EmptyInline>>, <<EmptyInline, TextPart>>, <<EmptyInline, JpegPart>>,
           <<NoMimePart>>, <<JpegPart, NoMimePart>>, <<NoMimePart, JpegPart>>,
           <<EmptyInline, TextPart, NoMimePart, JpegPart>> }

\* A candidate with or without content.parts.
Candidates == { [hasParts |-> FALSE, parts |-> <<>>] }
                \cup { [hasParts |-> TRUE, parts |-> p] : p \in PartLists }

ResponseTexts == { <<>>, <<"Sorry: ", "API key", " ", "401", " ", "safety filter">> }

NoErr == [name |-> "", message |-> <<>>]

Responses ==
    { [kind |-> "resolve", candidates |-> c, text |-> t, err |-> NoErr] :
        c \in ({<<>>} \cup { <<x>> : x \in Candidates }
               \cup { <<[hasParts |-> TRUE, parts |-> <<TextPart>>],
                        [hasParts |-> TRUE, parts |-> <<JpegPart>>]>> }),
        t \in ResponseTexts }

ErrMessages ==
    { <<>>,
      <<"Failed to fetch">>,
      <<"got status: ", "429", " quota exceeded">>,
      <<"got status: ", "401", " Unauthorized">>,
      <<"got status: ", "403", " Forbidden">>,
      <<"API key", " not valid. Please pass a valid API key.">>,
      <<"Blocked by the ", "safety filter">>,
      <<"Blocked by the ", "safety filter", " with status ", "403">> }

Rejections ==
    { [kind |-> "reject", candidates |-> <<>>, text |-> <<>>,
       err |-> [name |-> "ApiError", message |-> m]] : m \in ErrMessages }

Outcomes == Responses \cup Rejections

----------------------------------------------------------------------------
\* Pure parts of the handlers.

\* Variant: the button is not disabled while a call is outstanding.
DisabledNoBusy(sel, busy) == ~Truthy(sel)

\* disabled={!selectedImage || isGenerating} of the "Sketch It!" button.
Disabled(sel, busy) == ~Truthy(sel) \/ busy

\* The result panel renders the image, with its Share/Save and Close controls,
\* only when there is no error and there is a generated image.
ImageShown(err, gen) == ~Truthy(err) /\ Truthy(gen)

\* The error panel, with its copy-prompt control.
ErrorShown(err) == Truthy(err)

\* localStorage.getItem("gemini_api_key") || process.env.API_KEY || ""
InitialKey(store, env) ==
    IF store.present /\ store.value # "" THEN store.value
    ELSE IF env # "" THEN env
    ELSE ""

\* Variant: a credential edit clears whatever error there is.
KeyEditErrorAny(err) == NULL

\* if (error && (error.includes("API key") || error.includes("Authentication"))) setError(null)
KeyEditError(err) ==
    IF Truthy(err) /\ (Includes(err, "API key") \/ Includes(err, "Authentication"))
    THEN NULL
    ELSE err

\* Variant: onloadend leaves the error as it is.
ErrorOnSelectKept(err) == err

\* setError(null) of reader.onloadend
ErrorOnSelect(err) == NULL

\* Variant: the credential check is missing.
NoKeyUnchecked(key) == FALSE

\* if (!apiKey)
NoKey(key) == key = ""

\* Variant: the previous output is not cleared when a request starts.
GeneratedAtStartKept(gen) == gen

\* setGeneratedImage(null) before the request is built
GeneratedAtStart(gen) == NULL

\* response.candidates?.[0]?.content?.parts
PartsOf(response) ==
    IF Len(response.candidates) = 0
    THEN [hasParts |-> FALSE, parts |-> <<>>]
    ELSE response.candidates[1]

\* The for loop over parts: the data URL of the first part with inlineData and
\* inlineData.data, or NULL when the loop ends with foundImage false.
RECURSIVE FindImageFrom(_, _)
FindImageFrom(parts, i) ==
    IF i > Len(parts) THEN NULL
    ELSE IF parts[i].hasInline /\ parts[i].data # ""
         THEN DataURL(IF parts[i].mimeType # "" THEN parts[i].mimeType ELSE "image/png",
                      parts[i].data)
         ELSE FindImageFrom(parts, i + 1)

\* Variant: the loop tests part.inlineData only, not part.inlineData.data.
RECURSIVE FindInlineFrom(_, _)
FindInlineFrom(parts, i) ==
    IF i > Len(parts) THEN NULL
    ELSE IF parts[i].hasInline
         THEN DataURL(IF parts[i].mimeType # "" THEN parts[i].mimeType ELSE "image/png",
                      parts[i].data)
         ELSE FindInlineFrom(parts, i + 1)

FindImageAnyInline(parts) == FindInlineFrom(parts, 1)

\* Variant: the loop has no break, so the last image part wins.
RECURSIVE FindLastFrom(_, _, _)
FindLastFrom(parts, i, found) ==
    IF i > Len(parts) THEN found
    ELSE IF parts[i].hasInline /\ parts[i].data # ""
         THEN FindLastFrom(parts, i + 1,
                  DataURL(IF parts[i].mimeType # "" THEN parts[i].mimeType ELSE "image/png",
                          parts[i].data))
         ELSE FindLastFrom(parts, i + 1, found)

FindLastImage(parts) == FindLastFrom(parts, 1, NULL)

FindImage(parts) == FindImageFrom(parts, 1)

\* Variant: the text test is inverted.
NotFoundErrorInverted(text) ==
    IF ~Truthy(text)
    THEN [name |-> "Error", message |-> TextInsteadMsg]
    ELSE [name |-> "Error", message |-> NoImageMsg]

\* The error thrown when no image was found.
NotFoundError(text) ==
    IF Truthy(text)
    THEN [name |-> "Error", message |-> TextInsteadMsg]
    ELSE [name |-> "Error", message |-> NoImageMsg]

\* Error.prototype.toString
ErrToString(err) ==
    IF err.message = <<>> THEN <<err.name>> ELSE <<err.name, ": ">> \o err.message

\* Variant: the catch block without the branch for the known logic errors.
ClassifyNoKnown(err) ==
    LET errorString == ErrToString(err)
        errorMessage == err.message
    IN  IF Includes(errorString, "401") \/ Includes(errorString, "403")
           \/ Includes(errorString, "API key") \/ Includes(errorMessage, "API key")
        THEN AuthFailedMsg
        ELSE GenericMsg

\* Variant: the known logic errors are tested before the credential errors.
ClassifyKnownFirst(err) ==
    LET errorString == ErrToString(err)
        errorMessage == err.message
    IN  IF Includes(errorMessage, "safety filter")
           \/ Includes(errorMessage, "text instead of an image")
           \/ Includes(errorMessage, "No image was generated")
        THEN errorMessage
        ELSE IF Includes(errorString, "401") \/ Includes(errorString, "403")
                \/ Includes(errorString, "API key") \/ Includes(errorMessage, "API key")
        THEN AuthFailedMsg
        ELSE GenericMsg

\* Variant: the fallback shows the failure's own message, as the catch block
\* of part_000 does.
ClassifyRaw(err) ==
    LET errorString == ErrToString(err)
        errorMessage == err.message
    IN  IF Includes(errorString, "401") \/ Includes(errorString, "403")
           \/ Includes(errorString, "API key") \/ Includes(errorMessage, "API key")
        THEN AuthFailedMsg
        ELSE IF Truthy(errorMessage) THEN errorMessage
        ELSE <<"Failed to generate sketch. Please try a different photo.">>

\* The catch block: the message given to setError.
Classify(err) ==
    LET errorString == ErrToString(err)
        errorMessage == err.message
    IN  IF Includes(errorString, "401") \/ Includes(errorString, "403")
           \/ Includes(errorString, "API key") \/ Includes(errorMessage, "API key")
        THEN AuthFailedMsg
        ELSE IF Includes(errorMessage, "safety filter")
                \/ Includes(errorMessage, "text instead of an image")
                \/ Includes(errorMessage, "No image was generated")
        THEN errorMessage
        ELSE GenericMsg

\* Variant: no finally block.
BusyAfterSettleKept(busy) == busy

\* setIsGenerating(false) of the finally block
BusyAfterSettle(busy) == FALSE

\* The try block after the await, then catch: what the continuation hands to
\* setGeneratedImage and setError (set = FALSE: the setter is not called).
Continuation(o) ==
    LET ps    == PartsOf(o)
        img   == IF ps.hasParts THEN FindImage(ps.parts) ELSE NULL
    IN  IF o.kind = "reject"
        THEN [setImage |-> FALSE, image |-> NULL, setError |-> TRUE, error |-> Classify(o.err)]
        ELSE IF Truthy(img)
        THEN [setImage |-> TRUE, image |-> img, setError |-> FALSE, error |-> NULL]
        ELSE [setImage |-> FALSE, image |-> NULL, setError |-> TRUE,
              error |-> Classify(NotFoundError(o.text))]

\* The record of a handler run: which handler, its input, and the two output
\* fields as they were when it started.
Event(type, arg) ==
    [type |-> type, arg |-> arg,
     before |-> [generatedImage |-> generatedImage, error |-> error]]

\* The record of a continuation of handleGenerate: the outcome of its call and
\* the image data the call was issued with.
SettleEvent(o, call) ==
    [type |-> "settle", arg |-> o,
     before |-> [generatedImage |-> generatedImage, error |-> error],
     source |-> call.data]

RemoveAt(s, i) == [j \in 1..(Len(s) - 1) |-> IF j < i THEN s[j] ELSE s[j + 1]]

----------------------------------------------------------------------------
\* The state after the component mounts.

Mounted(store, env) ==
    /\ selectedImage = NULL
    /\ generatedImage = NULL
    /\ isGenerating = FALSE
    /\ error = NULL
    /\ customText = DefaultText
    /\ paperType = "lined"
    /\ lastPrompt = <<>>
    /\ apiKey = InitialKey(store, env)
    /\ reads = <<>>
    /\ calls = <<>>

Init ==
    /\ storage = [present |-> FALSE, value |-> ""]
    /\ envKey \in EnvKeys
    /\ Mounted(storage, envKey)
    /\ ev = [type |-> "mount", arg |-> <<>>,
             before |-> [generatedImage |-> NULL, error |-> NULL]]

----------------------------------------------------------------------------
\* Handlers.

HandleApiKeyChange(newKey) ==
    /\ apiKey' = newKey
    /\ storage' = [present |-> TRUE, value |-> newKey]
    /\ error' = KeyEditError(error)
    /\ ev' = Event("keyedit", newKey)
    /\ UNCHANGED <<selectedImage, generatedImage, isGenerating, customText,
                   paperType, lastPrompt, envKey, reads, calls>>

\* handleImageUpload with a file chosen: a FileReader starts reading it.
HandleImageUpload(f) ==
    /\ Len(reads) < MaxReads
    /\ reads' = Append(reads, f)
    /\ ev' = Event("upload", <<>>)
    /\ UNCHANGED <<selectedImage, generatedImage, isGenerating, error, customText,
                   paperType, lastPrompt, apiKey, storage, envKey, calls>>

\* Variant: selecting a new image abandons the outstanding calls.
OnLoadEndCancelling(i, result) ==
    /\ i \in 1..Len(reads)
    /\ result \in ReadResults(reads[i])
    /\ selectedImage' = result
    /\ generatedImage' = NULL
    /\ error' = ErrorOnSelect(error)
    /\ reads' = RemoveAt(reads, i)
    /\ calls' = <<>>
    /\ isGenerating' = FALSE
    /\ ev' = Event("loadend", result)
    /\ UNCHANGED <<customText, paperType, lastPrompt, apiKey, storage, envKey>>

\* reader.onloadend of the i-th outstanding read, with reader.result = result.
OnLoadEnd(i, result) ==
    /\ i \in 1..Len(reads)
    /\ result \in ReadResults(reads[i])
    /\ selectedImage' = result
    /\ generatedImage' = NULL
    /\ error' = ErrorOnSelect(error)
    /\ reads' = RemoveAt(reads, i)
    /\ ev' = Event("loadend", result)
    /\ UNCHANGED <<isGenerating, customText, paperType, lastPrompt, apiKey,
                   storage, envKey, calls>>

\* Variant: the error is not cleared when a request starts.
HandleGenerateKeepsError ==
    /\ ev' = Event("generate", <<>>)
    /\ IF ~Truthy(selectedImage)
       THEN UNCHANGED <<selectedImage, generatedImage, isGenerating, error, customText,
                        paperType, lastPrompt, apiKey, storage, envKey, reads, calls>>
       ELSE IF NoKey(apiKey)
       THEN /\ error' = MissingKeyMsg
            /\ UNCHANGED <<selectedImage, generatedImage, isGenerating, customText,
                           paperType, lastPrompt, apiKey, storage, envKey, reads, calls>>
       ELSE /\ Len(calls) < MaxCalls
            /\ isGenerating' = TRUE
            /\ generatedImage' = GeneratedAtStart(generatedImage)
            /\ lastPrompt' = Prompt(paperType, customText)
            /\ calls' = Append(calls, [prompt   |-> Prompt(paperType, customText),
                                       mimeType |-> MimeOf(selectedImage),
                                       data     |-> Base64Of(selectedImage)])
            /\ UNCHANGED <<selectedImage, error, customText, paperType, apiKey, storage,
                           envKey, reads>>

\* Variant: the credential is tested before the image.
HandleGenerateKeyFirst ==
    /\ ev' = Event("generate", <<>>)
    /\ IF NoKey(apiKey)
       THEN /\ error' = MissingKeyMsg
            /\ UNCHANGED <<selectedImage, generatedImage, isGenerating, customText,
                           paperType, lastPrompt, apiKey, storage, envKey, reads, calls>>
       ELSE IF ~Truthy(selectedImage)
       THEN UNCHANGED <<selectedImage, generatedImage, isGenerating, error, customText,
                        paperType, lastPrompt, apiKey, storage, envKey, reads, calls>>
       ELSE /\ Len(calls) < MaxCalls
            /\ isGenerating' = TRUE
            /\ error' = NULL
            /\ generatedImage' = GeneratedAtStart(generatedImage)
            /\ lastPrompt' = Prompt(paperType, customText)
            /\ calls' = Append(calls, [prompt   |-> Prompt(paperType, customText),
                                       mimeType |-> MimeOf(selectedImage),
                                       data     |-> Base64Of(selectedImage)])
            /\ UNCHANGED <<selectedImage, customText, paperType, apiKey, storage,
                           envKey, reads>>

\* handleGenerate up to the await.
HandleGenerate ==
    /\ ev' = Event("generate", <<>>)
    /\ IF ~Truthy(selectedImage)
       THEN UNCHANGED <<selectedImage, generatedImage, isGenerating, error, customText,
                        paperType, lastPrompt, apiKey, storage, envKey, reads, calls>>
       ELSE IF NoKey(apiKey)
       THEN /\ error' = MissingKeyMsg
            /\ UNCHANGED <<selectedImage, generatedImage, isGenerating, customText,
                           paperType, lastPrompt, apiKey, storage, envKey, reads, calls>>
       ELSE /\ Len(calls) < MaxCalls
            /\ isGenerating' = TRUE
            /\ error' = NULL
            /\ generatedImage' = GeneratedAtStart(generatedImage)
            /\ lastPrompt' = Prompt(paperType, customText)
            /\ calls' = Append(calls, [prompt   |-> Prompt(paperType, customText),
                                       mimeType |-> MimeOf(selectedImage),
                                       data     |-> Base64Of(selectedImage)])
            /\ UNCHANGED <<selectedImage, customText, paperType, apiKey, storage,
                           envKey, reads>>

\* A click on the "Sketch It!" button.
ClickGenerate ==
    /\ ~Disabled(selectedImage, isGenerating)
    /\ HandleGenerate

\* Variant: setIsGenerating(false) at the end of the try block, not in finally.
SettleBusyOnError(i, o) ==
    /\ i \in 1..Len(calls)
    /\ LET k == Continuation(o)
       IN  /\ generatedImage' = IF k.setImage THEN k.image ELSE generatedImage
           /\ error' = IF k.setError THEN k.error ELSE error
           /\ isGenerating' = IF k.setError THEN isGenerating ELSE FALSE
    /\ calls' = RemoveAt(calls, i)
    /\ ev' = SettleEvent(o, calls[i])
    /\ UNCHANGED <<selectedImage, customText, paperType, lastPrompt, apiKey,
                   storage, envKey, reads>>

\* Variant: a failed call is issued again instead of ending the attempt.
SettleRetrying(i, o) ==
    /\ i \in 1..Len(calls)
    /\ LET k == Continuation(o)
       IN  /\ generatedImage' = IF k.setImage THEN k.image ELSE generatedImage
           /\ error' = IF k.setError THEN k.error ELSE error
           /\ calls' = IF k.setError THEN calls ELSE RemoveAt(calls, i)
           /\ isGenerating' = IF k.setError THEN isGenerating ELSE FALSE
    /\ ev' = SettleEvent(o, calls[i])
    /\ UNCHANGED <<selectedImage, customText, paperType, lastPrompt, apiKey,
                   storage, envKey, reads>>

\* The i-th outstanding call settles with outcome o and handleGenerate resumes.
Settle(i, o) ==
    /\ i \in 1..Len(calls)
    /\ LET k == Continuation(o)
       IN  /\ generatedImage' = IF k.setImage THEN k.image ELSE generatedImage
           /\ error' = IF k.setError THEN k.error ELSE error
    /\ isGenerating' = BusyAfterSettle(isGenerating)
    /\ calls' = RemoveAt(calls, i)
    /\ ev' = SettleEvent(o, calls[i])
    /\ UNCHANGED <<selectedImage, customText, paperType, lastPrompt, apiKey,
                   storage, envKey, reads>>

SetPaperType(t) ==
    /\ paperType' = t
    /\ ev' = Event("paper", t)
    /\ UNCHANGED <<selectedImage, generatedImage, isGenerating, error, customText,
                   lastPrompt, apiKey, storage, envKey, reads, calls>>

SetCustomText(t) ==
    /\ customText' = t
    /\ ev' = Event("text", t)
    /\ UNCHANGED <<selectedImage, generatedImage, isGenerating, error, paperType,
                   lastPrompt, apiKey, storage, envKey, reads, calls>>

\* handleDownload: shares or downloads generatedImage, sets no state.
HandleDownload ==
    /\ ImageShown(error, generatedImage)
    /\ ev' = Event("download", generatedImage)
    /\ UNCHANGED <<selectedImage, generatedImage, isGenerating, error, customText,
                   paperType, lastPrompt, apiKey, storage, envKey, reads, calls>>

\* The Close control of the result: setGeneratedImage(null).
CloseResult ==
    /\ ImageShown(error, generatedImage)
    /\ generatedImage' = NULL
    /\ ev' = Event("close", <<>>)
    /\ UNCHANGED <<selectedImage, isGenerating, error, customText, paperType,
                   lastPrompt, apiKey, storage, envKey, reads, calls>>

\* copyPrompt: writes lastPrompt to the clipboard, sets no state.
CopyPrompt ==
    /\ ErrorShown(error)
    /\ ev' = Event("copy", lastPrompt)
    /\ UNCHANGED <<selectedImage, generatedImage, isGenerating, error, customText,
                   paperType, lastPrompt, apiKey, storage, envKey, reads, calls>>

\* The page is reloaded: the component mounts again; reads and calls of the
\* old page are gone with it.
Reload ==
    /\ UNCHANGED <<storage, envKey>>
    /\ selectedImage' = NULL
    /\ generatedImage' = NULL
    /\ isGenerating' = FALSE
    /\ error' = NULL
    /\ customText' = DefaultText
    /\ paperType' = "lined"
    /\ lastPrompt' = <<>>
    /\ apiKey' = InitialKey(storage, envKey)
    /\ reads' = <<>>
    /\ calls' = <<>>
    /\ ev' = Event("mount", <<>>)

Next ==
    \/ \E k \in Keys : HandleApiKeyChange(k)
    \/ \E f \in Files : HandleImageUpload(f)
    \/ \E i \in 1..MaxReads, r \in UNION { ReadResults(f) : f \in Files } : OnLoadEnd(i, r)
    \/ ClickGenerate
    \/ \E i \in 1..MaxCalls, o \in Outcomes : Settle(i, o)
    \/ \E t \in PaperChoices : SetPaperType(t)
    \/ \E t \in Texts : SetCustomText(t)
    \/ HandleDownload
    \/ CloseResult
    \/ CopyPrompt
    \/ Reload

Spec == Init /\ [][Next]_vars

\* handleGenerate run while no image is selected, which a click cannot do (the
\* button is disabled then): the handler tests selectedImage itself.
InvokeWithoutImage ==
    /\ ~Truthy(selectedImage)
    /\ HandleGenerate

NextDirect == Next \/ InvokeWithoutImage

SpecDirect == Init /\ [][NextDirect]_vars

----------------------------------------------------------------------------
\* Properties.

\* The parts of the first candidate, <<>> when there is none.
FirstParts(o) ==
    IF o.candidates = <<>> THEN <<>>
    ELSE IF o.candidates[1].hasParts THEN o.candidates[1].parts
    ELSE <<>>

IsImagePart(part) == part.hasInline /\ part.data # ""

HasImagePart(o) == \E i \in 1..Len(FirstParts(o)) : IsImagePart(FirstParts(o)[i])

Resolved == ev.type = "settle" /\ ev.arg.kind = "resolve"

Rejected == ev.type = "settle" /\ ev.arg.kind = "reject"

\* C1: once a generation attempt has completed, at most one of generatedImage
\* and error is non-empty.  Both fields are empty until an attempt has run
\* (error is set by attempts only), so this is: they are never both non-empty.
C1_AtMostOneOutput == ~(Truthy(generatedImage) /\ Truthy(error))

\* C2: when onloadend of a file read fires, selectedImage is reader.result and
\* generatedImage and error are empty, whatever they held before.
C2_SelectClearsOutput ==
    ev.type = "loadend" =>
        /\ selectedImage = ev.arg
        /\ generatedImage = NULL
        /\ error = NULL

C2_Witness ==
    /\ ev.type = "loadend"
    /\ Truthy(selectedImage)
    /\ Truthy(ev.before.generatedImage)
    /\ Truthy(ev.before.error)

\* C3: a generation attempt with an empty credential issues no call, does not
\* set the busy flag, and sets error to the missing-credential message.
C3_NoKeyRejected ==
    [][(ev'.type = "generate" /\ apiKey = "") =>
          /\ calls' = calls
          /\ ~isGenerating'
          /\ error' = MissingKeyMsg]_vars

C3_Witness ==
    /\ ev.type = "generate"
    /\ apiKey = ""
    /\ error = MissingKeyMsg
    /\ ev.before.error = NULL

\* C4: when the call of an attempt settles, either generatedImage is set and
\* error is empty, or error is a classified message and generatedImage is
\* empty.
ClassifiedMessage(o, msg) ==
    \/ msg \in {AuthFailedMsg, TextInsteadMsg, NoImageMsg, GenericMsg}
    \/ /\ o.kind = "reject"
       /\ msg = o.err.message
       /\ \/ Includes(msg, "safety filter")
          \/ Includes(msg, "text instead of an image")
          \/ Includes(msg, "No image was generated")

C4_ExactlyOneOutcome ==
    ev.type = "settle" =>
        \/ Truthy(generatedImage) /\ error = NULL
        \/ Truthy(error) /\ ClassifiedMessage(ev.arg, error) /\ generatedImage = NULL

\* A call has been rejected and the attempt has ended with the error alone.
C4_Witness ==
    /\ Rejected
    /\ Truthy(error)
    /\ generatedImage = NULL

\* C5: a response whose first candidate has a part with non-empty inline data
\* sets generatedImage to the data URL of the first such part and leaves error
\* empty.
C5_ImageResponse ==
    Resolved =>
        \A i \in 1..Len(FirstParts(ev.arg)) :
            LET part == FirstParts(ev.arg)[i]
            IN  (/\ IsImagePart(part)
                 /\ \A j \in 1..(i - 1) : ~IsImagePart(FirstParts(ev.arg)[j]))
                => /\ generatedImage =
                        <<"data:", IF part.mimeType = "" THEN "image/png" ELSE part.mimeType,
                          ";base64,", part.data>>
                   /\ error = NULL

\* The image part comes after an inline part without data.
C5_Witness ==
    /\ Resolved
    /\ FirstParts(ev.arg) = <<EmptyInline, JpegPart>>
    /\ generatedImage = <<"data:", "image/jpeg", ";base64,", "d1">>

\* C6: a response with no image part and a non-empty text ends with the
\* text-instead-of-image error and no generated image, whatever the text is.
C6_TextResponse ==
    (Resolved /\ ~HasImagePart(ev.arg) /\ ev.arg.text # <<>>) =>
        /\ error = TextInsteadMsg
        /\ generatedImage = NULL

\* The text itself holds "API key", "401" and "safety filter".
C6_Witness ==
    /\ Resolved
    /\ ~HasImagePart(ev.arg)
    /\ Includes(ev.arg.text, "401")
    /\ error = TextInsteadMsg

\* C7: a response with no image part and no text (no candidates and no parts
\* included) ends with the no-image error and no generated image.
C7_EmptyResponse ==
    (Resolved /\ ~HasImagePart(ev.arg) /\ ev.arg.text = <<>>) =>
        /\ error = NoImageMsg
        /\ generatedImage = NULL

C7_Witness ==
    /\ Resolved
    /\ ev.arg.candidates = <<>>
    /\ ev.arg.text = <<>>
    /\ error = NoImageMsg

\* C8: isGenerating is true exactly while a request has been started and has
\* not settled.
C8_BusyIffOutstanding == isGenerating <=> (Len(calls) > 0)

\* The busy flag is down again after a completion.
C8_Witness ==
    /\ ev.type = "settle"
    /\ ~isGenerating
    /\ calls = <<>>

\* C9: at most one generation request is outstanding at any time.
C9_AtMostOneOutstanding == Len(calls) <= 1

\* Another image has been selected while the request is outstanding.
C9_Witness ==
    /\ Len(calls) = 1
    /\ ev.type = "loadend"
    /\ Truthy(selectedImage)
    /\ Base64Of(selectedImage) # calls[1].data

\* C10 as stated: generatedImage and error change only when a new image is
\* selected or by a generation attempt (or when the page is loaded again).
C10_OnlySelectAndAttempt ==
    [][(generatedImage' # generatedImage \/ error' # error) =>
          ev'.type \in {"loadend", "generate", "settle", "mount"}]_vars

\* C10 amended: besides those, a credential edit clears an error that holds
\* "API key" or "Authentication" and changes nothing else of the two fields,
\* the Close control clears generatedImage and leaves error, and the paper,
\* caption, share/save and copy-prompt controls change neither.
C10_FrameOfOtherActions ==
    [][/\ ev'.type \in {"paper", "text", "download", "copy", "upload"} =>
            (generatedImage' = generatedImage /\ error' = error)
       /\ ev'.type = "keyedit" =>
            /\ generatedImage' = generatedImage
            /\ (Includes(error, "API key") \/ Includes(error, "Authentication"))
                  => error' = NULL
            /\ ~(Includes(error, "API key") \/ Includes(error, "Authentication"))
                  => error' = error
       /\ ev'.type = "close" =>
            (generatedImage' = NULL /\ error' = error)
       /\ (generatedImage' # generatedImage \/ error' # error) =>
            ev'.type \in {"loadend", "generate", "settle", "mount", "keyedit", "close"}]_vars

\* A credential edit has left an error that is not about the credential.
C10_Witness ==
    /\ ev.type = "keyedit"
    /\ error = TextInsteadMsg
    /\ ev.before.error = TextInsteadMsg

\* C11: every credential edit writes the new value to the stored entry, and
\* after a reload the credential is the stored value, the last one entered,
\* the empty string included and whatever the build-time key is.
C11_ReloadKeepsCredential ==
    /\ ev.type = "keyedit" =>
          (storage = [present |-> TRUE, value |-> ev.arg] /\ apiKey = ev.arg)
    /\ (ev.type = "mount" /\ storage.present) => apiKey = storage.value

\* C12: a request is issued only by a generation attempt, one per attempt;
\* when the call settles it is gone and none takes its place, and a failure
\* of any class leaves the error set and the busy flag down.
C12_OneRequestPerAttempt ==
    [][/\ Len(calls') > Len(calls) =>
            (ev'.type = "generate" /\ Len(calls') = Len(calls) + 1)
       /\ ev'.type = "settle" =>
            /\ Len(calls') + 1 = Len(calls)
            /\ (ev'.arg.kind = "reject" \/ ~HasImagePart(ev'.arg)) =>
                  (Truthy(error') /\ ~isGenerating')]_vars

\* A quota failure has ended the attempt and no call is outstanding.
C12_Witness ==
    /\ Rejected
    /\ Includes(ev.arg.err.message, "429")
    /\ calls = <<>>
    /\ Truthy(error)
    /\ ~isGenerating

\* C13: no user event takes an outstanding call away (selecting another
\* image, editing the credential, texture or caption included), and when the
\* call settles its outcome is applied whatever image is selected by then, so
\* the output can come from the image selected before.
C13_NeverCancelled ==
    [][/\ ev'.type \in {"keyedit", "upload", "loadend", "paper", "text",
                        "download", "close", "copy"} =>
            (calls' = calls /\ isGenerating' = isGenerating)
       /\ ev'.type = "settle" =>
            /\ selectedImage' = selectedImage
            /\ IF ev'.arg.kind = "resolve" /\ HasImagePart(ev'.arg)
               THEN Truthy(generatedImage') /\ error' = error
               ELSE Truthy(error') /\ generatedImage' = generatedImage]_vars

\* The image shown was generated from another image than the selected one.
C13_Witness ==
    /\ ev.type = "settle"
    /\ Truthy(generatedImage)
    /\ Truthy(selectedImage)
    /\ ev.source # Base64Of(selectedImage)

\* The failure the catch block receives when the call of ev has settled: the
\* rejection, or the Error thrown for a response without an image part.
Caught ==
    IF ev.arg.kind = "reject" THEN ev.arg.err
    ELSE [name |-> "Error",
          message |-> IF ev.arg.text # <<>> THEN TextInsteadMsg ELSE NoImageMsg]

HasCaught == ev.type = "settle" /\ (ev.arg.kind = "reject" \/ ~HasImagePart(ev.arg))

\* The string form of an Error is its name, ": " and its message.
FailureHas(err, frag) == err.name = frag \/ Includes(err.message, frag)

CredentialRelated(err) ==
    FailureHas(err, "401") \/ FailureHas(err, "403") \/ FailureHas(err, "API key")

DomainSpecific(err) ==
    \/ Includes(err.message, "safety filter")
    \/ Includes(err.message, "text instead of an image")
    \/ Includes(err.message, "No image was generated")

\* C14: a caught failure whose string form or message holds "401", "403" or
\* "API key" yields the authentication-failure message, also when it holds a
\* fragment of the later classes.
C14_AuthFirst ==
    (HasCaught /\ CredentialRelated(Caught)) => error = AuthFailedMsg

C14_Witness ==
    /\ Rejected
    /\ Includes(ev.arg.err.message, "safety filter")
    /\ Includes(ev.arg.err.message, "403")
    /\ error = AuthFailedMsg

C16_FirstImagePart ==
    Resolved =>
        LET parts == FirstParts(ev.arg)
            idx   == { i \in 1..Len(parts) : IsImagePart(parts[i]) }
        IN  IF idx = {}
            THEN generatedImage = NULL
            ELSE LET first == CHOOSE i \in idx : \A j \in idx : i <= j
                 IN  generatedImage =
                        <<"data:",
                          IF parts[first].mimeType = "" THEN "image/png"
                          ELSE parts[first].mimeType,
                          ";base64,", parts[first].data>>

\* Two parts are skipped, the third is taken, the fourth (an image) ignored.
C16_Witness ==
    /\ Resolved
    /\ FirstParts(ev.arg) = <<EmptyInline, TextPart, NoMimePart, JpegPart>>
    /\ generatedImage = <<"data:", "image/png", ";base64,", "d2">>

\* C17: while isGenerating is true, generatedImage and error are both empty.
C17_BusyMeansNoOutput ==
    isGenerating => (generatedImage = NULL /\ error = NULL)

\* The credential has been edited while the request is outstanding.
C17_Witness ==
    /\ isGenerating
    /\ ev.type = "keyedit"
    /\ generatedImage = NULL
    /\ error = NULL

\* C18 as stated: when the call settles, on the image path and on every error
\* path, isGenerating is false and the trigger control is enabled; until then
\* (no timeout) isGenerating stays true for as long as the page lives.
C18_SettleEnablesTrigger ==
    [][/\ ev'.type = "settle" =>
            (~isGenerating' /\ ~Disabled(selectedImage', isGenerating'))
       /\ (isGenerating /\ ev'.type \notin {"settle", "mount"}) => isGenerating']_vars

\* C18 amended: the trigger control is enabled after the call settles when a
\* source image is still selected.
C18_SettleEndsBusy ==
    [][/\ ev'.type = "settle" =>
            /\ ~isGenerating'
            /\ Truthy(selectedImage') => ~Disabled(selectedImage', isGenerating')
       /\ (isGenerating /\ ev'.type \notin {"settle", "mount"}) => isGenerating']_vars

\* An error path has ended and the control is enabled again.
C18_Witness ==
    /\ HasCaught
    /\ Truthy(error)
    /\ ~isGenerating
    /\ ~Disabled(selectedImage, isGenerating)

\* C19: a credential edit clears the error if and only if it is the
\* authentication-failure or the missing-credential message.
C19_ClearsCredentialErrorsOnly ==
    [][ev'.type = "keyedit" =>
          error' = IF error \in {AuthFailedMsg, MissingKeyMsg} THEN NULL ELSE error]_vars

\* C20: handleGenerate with no image selected issues no call and leaves
\* generatedImage, error, isGenerating and lastPrompt as they are, also when
\* the credential is empty.
C20_NoImageNoOp ==
    [][(ev'.type = "generate" /\ ~Truthy(selectedImage)) =>
          UNCHANGED <<generatedImage, error, isGenerating, lastPrompt, calls>>]_vars

\* The handler has run with neither an image nor a credential.
C20_Witness ==
    /\ ev.type = "generate"
    /\ selectedImage = NULL
    /\ apiKey = ""
    /\ error = NULL

\* C21: whenever an error is displayed, lastPrompt is the instruction composed
\* for the attempt that produced it: the prompt of the call whose failure was
\* caught, or, for an attempt rejected in handleGenerate, the instruction of the
\* paper texture and caption in effect at that attempt; steps that leave the
\* error displayed leave both the error and lastPrompt as they are.
C21_ErrorPromptOfAttempt ==
    [][Truthy(error') =>
          IF ev'.type = "settle"
          THEN \E i \in 1..Len(calls) :
                  calls' = RemoveAt(calls, i) /\ lastPrompt' = calls[i].prompt
          ELSE IF ev'.type = "generate"
          THEN lastPrompt' = Prompt(paperType, customText)
          ELSE lastPrompt' = lastPrompt /\ error' = error]_vars

====
